---- MODULE Spec2Model ----
(***************************************************************************)
(* Client state machine of the TestLab-AI event-driven pipeline page       *)
(* (Index.tsx, PlaybackControls.tsx, PipelineVisualization.tsx).           *)
(*                                                                         *)
(* Every handler runs to completion against the state of the last render,  *)
(* and React commits all of its setState calls together, so one handler is *)
(* one atomic action.  Optional JavaScript values are encoded as sequences *)
(* of length 0 (undefined / null) or 1 (present).  handleStep is defined   *)
(* in Index.tsx but passed to no component, so it is not an action.        *)
(***************************************************************************)
EXTENDS Integers, Sequences, FiniteSets, TLC

\* ------------------------------------------------------------------ bounds
MaxEvents == 2      \* stage events delivered over all streams
MaxStreams == 2     \* event streams open at the same time

\* --------------------------------------------------------------- constants
stepOrder == << "server", "coordinator", "ingest_agent", "diagnosis_agent",
                "ml_improvement_agent", "eval_agent", "planner_agent" >>
totalSteps == 7

Null == "<null>"                     \* failedAgent === null
None == << >>                        \* an absent optional value
Some(v) == << v >>

\* agent names a stream may carry: names of stepOrder and one name outside it
EventAgents == { "ingest_agent", "ml_improvement_agent", "other_agent" }
\* every agent name that can key stepStatuses
Agents == EventAgents \cup { stepOrder[i] : i \in 1..Len(stepOrder) }

EventStatuses == { "started", "processing", "success", "failed" }

\* stepOrder.indexOf(agent): 0-based index, -1 when not found
IndexOf(agent) ==
    IF \E i \in 1..Len(stepOrder) : stepOrder[i] = agent
    THEN (CHOOSE i \in 1..Len(stepOrder) : stepOrder[i] = agent) - 1
    ELSE -1

\* ------------------------------------------------------------ data values
MkFile(pid, path, orig, code, diff, ann, summary) ==
    [ pipeline_id |-> pid, file_path |-> path, original_code |-> orig,
      improved_code |-> code, diff |-> diff, annotations |-> ann,
      summary |-> summary ]

FileA == MkFile("r", "models/a_improved.py", "origA", "codeA", "diffA", "annA", "sumA")
FileB == MkFile("r", "models/b_improved.py", "origB", "codeB", "diffB", "annB", "sumB")

\* const legacyFile = {...} built from an event payload or from
\* result.ml_improvement; pid and orig are optional in the source object
LegacyFile(pid, orig, code) ==
    MkFile(IF pid # None /\ pid[1] # "" THEN pid[1] ELSE "unknown",
           "models/legacy_model.py",
           IF orig # None /\ orig[1] # "" THEN orig[1]
                                         ELSE "# Original code not available",
           code,
           "# Diff will be generated",
           "15:add:Legacy format improvements",
           "Legacy improvements applied")

\* an object with the fields an agent payload may carry, all optional
EmptyObj == [ run_id |-> None, original_code |-> None, improved_files |-> None,
              improved_code |-> None, baseline_metrics |-> None,
              improved_metrics |-> None ]

\* { ...a, ...b } : the fields of b override those of a
Spread(a, b) == [ k \in DOMAIN a |-> IF b[k] # None THEN b[k] ELSE a[k] ]

\* event.payload of the events a stream delivers (None: no payload)
Payloads ==
    { None,
      Some([EmptyObj EXCEPT !.improved_files = Some(<< FileA, FileB >>),
                            !.improved_code = Some("codeS")]),
      Some([EmptyObj EXCEPT !.improved_code = Some("codeL"), !.run_id = Some("r1")]),
      Some([EmptyObj EXCEPT !.baseline_metrics = Some(1), !.improved_code = Some("")]) }

\* PipelineResponse: the terminal result of a stream
EmptyML == [ improved_files |-> None, improved_code |-> None, original_code |-> None ]
EmptyResult == [ run_id |-> None, overview |-> None, pipeline_json |-> None,
                 improved_code |-> None, ml_improvement |-> None ]

Results ==
    { EmptyResult,
      [EmptyResult EXCEPT !.overview = Some([EmptyObj EXCEPT !.improved_metrics = Some(3)]),
                          !.pipeline_json = Some("json"),
                          !.improved_code = Some(<< FileA >>)],
      [EmptyResult EXCEPT !.improved_code = Some(<< >>),
                          !.ml_improvement = Some([EmptyML EXCEPT !.improved_files = Some(<< FileB >>)])],
      [EmptyResult EXCEPT !.run_id = Some("r9"),
                          !.ml_improvement = Some([EmptyML EXCEPT !.improved_code = Some("codeM")])] }

EmptyRealtime == [ overview |-> None, pipeline_json |-> None, improved_code |-> None ]

\* ------------------------------------------------------------------ state
VARIABLES
    pipelineData,     \* TRUE iff pipelineData is not null
    isRunning, isPaused,
    currentStep,
    failedAgent,      \* Null or an agent name or "pipeline"
    stepStatuses,     \* agent -> "none" (no entry) | processing | completed | error
    improvedCode,
    pipelineResult,   \* None or Some(result)
    realtimeData,
    improvedFiles,
    streams,          \* number of event streams that are open
    sent,             \* the request the last handler sent through apiClient
    nEvents,          \* stage events delivered so far
    lastOp,           \* the handler that ran last, with its arguments
    coord,            \* the run of the pipeline coordinator (backend)
    obs               \* what an observer of the run's event stream has seen

composite == << realtimeData, improvedFiles, improvedCode, pipelineResult >>
page == << pipelineData, isRunning, isPaused, currentStep, failedAgent,
           stepStatuses, improvedCode, pipelineResult, realtimeData, improvedFiles >>
vars == << pipelineData, isRunning, isPaused, currentStep, failedAgent,
           stepStatuses, improvedCode, pipelineResult, realtimeData,
           improvedFiles, streams, sent, nEvents, lastOp, coord, obs >>

\* run: "older" marks an event of a run started before the latest one
Op(kind, agent, status) ==
    [ kind |-> kind, agent |-> agent, status |-> status, run |-> "" ]

\* the coordinator before any run, and the observer before any event
CoordIdle == [ status |-> "none", cursor |-> 1, rec |-> "idle" ]
ObsNone == [ step |-> -1, last |-> [ a \in Agents |-> "none" ], retry |-> FALSE,
             halted |-> FALSE ]

Init ==
    /\ pipelineData = FALSE
    /\ isRunning = FALSE
    /\ isPaused = FALSE
    /\ currentStep = 0
    /\ failedAgent = Null
    /\ stepStatuses = [ a \in Agents |-> "none" ]
    /\ improvedCode = ""
    /\ pipelineResult = None
    /\ realtimeData = EmptyRealtime
    /\ improvedFiles = << >>
    /\ streams = 0
    /\ sent = ""
    /\ nEvents = 0
    /\ lastOp = Op("init", Null, "")
    /\ coord = CoordIdle
    /\ obs = ObsNone

\* --------------------------------------------------- APIClient (lib/api-client)
\* runPipelineEventDriven opens one stream per call and invokes the three
\* callbacks while it is open; the terminal result or an error ends it.
OpenStream == streams < MaxStreams /\ streams' = streams + 1
CloseStream == streams > 0 /\ streams' = streams - 1

\* ------------------------------------------------------------- Index.tsx
\* variant of runEventDrivenPipeline: the reset leaves improvedFiles alone
runEventDrivenPipelineKeepsFiles ==
    /\ isRunning' = TRUE
    /\ currentStep' = 0
    /\ stepStatuses' = [ a \in Agents |-> "none" ]
    /\ improvedCode' = ""
    /\ pipelineResult' = None
    /\ failedAgent' = Null
    /\ realtimeData' = EmptyRealtime
    /\ OpenStream
    /\ sent' = "run"
    /\ UNCHANGED << pipelineData, isPaused, improvedFiles >>

\* runEventDrivenPipeline, up to the await: the state reset and the request
runEventDrivenPipeline ==
    /\ isRunning' = TRUE
    /\ currentStep' = 0
    /\ stepStatuses' = [ a \in Agents |-> "none" ]
    /\ improvedCode' = ""
    /\ pipelineResult' = None
    /\ failedAgent' = Null
    /\ realtimeData' = EmptyRealtime
    /\ improvedFiles' = << >>
    /\ OpenStream
    /\ sent' = "run"
    /\ UNCHANGED << pipelineData, isPaused >>

\* handlePlay called while the pending value of failedAgent is fa
\* (handleRetryAgent calls it after setFailedAgent(null))
handlePlayWith(fa) ==
    IF ~pipelineData
    THEN /\ failedAgent' = fa
         /\ UNCHANGED << pipelineData, isRunning, isPaused, currentStep,
                         stepStatuses, improvedCode, pipelineResult,
                         realtimeData, improvedFiles, streams >> /\ sent' = ""
    ELSE IF currentStep = 0
    THEN runEventDrivenPipeline
    ELSE /\ isRunning' = TRUE
         /\ isPaused' = FALSE
         /\ failedAgent' = fa
         /\ UNCHANGED << pipelineData, currentStep, stepStatuses, improvedCode,
                         pipelineResult, realtimeData, improvedFiles,
                         streams >> /\ sent' = ""

handlePlay == handlePlayWith(failedAgent)

handlePause ==
    /\ isPaused' = TRUE
    /\ UNCHANGED << pipelineData, isRunning, currentStep, failedAgent,
                    stepStatuses, improvedCode, pipelineResult, realtimeData,
                    improvedFiles, streams >> /\ sent' = ""

handleRestart ==
    /\ currentStep' = 0
    /\ isRunning' = FALSE
    /\ isPaused' = FALSE
    /\ failedAgent' = Null
    /\ realtimeData' = EmptyRealtime
    /\ UNCHANGED << pipelineData, stepStatuses, improvedCode, pipelineResult,
                    improvedFiles, streams >> /\ sent' = ""

\* variant of handleRetryAgent: no test of failedAgent and pipelineData
handleRetryAgentUnguarded == handlePlayWith(Null)

handleRetryAgent ==
    IF failedAgent = Null \/ ~pipelineData
    THEN UNCHANGED << page, streams >> /\ sent' = ""
    ELSE handlePlayWith(Null)

\* variant of handleSkipAgent: a placeholder entry for the skipped stage
handleSkipAgentPlaceholder ==
    IF failedAgent = Null
    THEN UNCHANGED << page, streams >> /\ sent' = ""
    ELSE /\ failedAgent' = Null
         /\ isRunning' = TRUE
         /\ currentStep' = currentStep + 1
         /\ improvedFiles' = << >>
         /\ realtimeData' = [ realtimeData EXCEPT !.improved_code = None ]
         /\ UNCHANGED << pipelineData, isPaused, stepStatuses, improvedCode,
                         pipelineResult, streams >> /\ sent' = ""

handleSkipAgent ==
    IF failedAgent = Null
    THEN UNCHANGED << page, streams >> /\ sent' = ""
    ELSE /\ failedAgent' = Null
         /\ isRunning' = TRUE
         /\ currentStep' = currentStep + 1
         /\ UNCHANGED << pipelineData, isPaused, stepStatuses, improvedCode,
                         pipelineResult, realtimeData, improvedFiles,
                         streams >> /\ sent' = ""

handleParse(parsed) ==
    /\ pipelineData' = parsed
    /\ currentStep' = 0
    /\ isRunning' = FALSE
    /\ isPaused' = FALSE
    /\ UNCHANGED << failedAgent, stepStatuses, improvedCode, pipelineResult,
                    realtimeData, improvedFiles, streams >> /\ sent' = ""

handleClear ==
    /\ pipelineData' = FALSE
    /\ currentStep' = 0
    /\ isRunning' = FALSE
    /\ isPaused' = FALSE
    /\ improvedCode' = ""
    /\ UNCHANGED << failedAgent, stepStatuses, pipelineResult, realtimeData,
                    improvedFiles, streams >> /\ sent' = ""

\* ----------------------------------------------- onEvent (event: AgentEvent)
\* variant of StatusOf: a started event already counts as completed
StatusOfStartedCompleted(status) ==
    IF status = "success" \/ status = "started" THEN "completed"
    ELSE IF status = "failed" THEN "error" ELSE "processing"

\* variant of StatusOf: a success event leaves the stage in processing
StatusOfSuccessProcessing(status) ==
    IF status = "failed" THEN "error" ELSE "processing"

\* status written to stepStatuses[event.agent]
StatusOf(status) ==
    IF status = "success" THEN "completed"
    ELSE IF status = "failed" THEN "error" ELSE "processing"

\* variants of StepAfter: the index itself; every status advances
StepAfterIndex(agent, status, step) ==
    IF status \in { "success", "failed" } /\ IndexOf(agent) >= 0
    THEN IndexOf(agent)
    ELSE step

StepAfterAnyStatus(agent, status, step) ==
    IF IndexOf(agent) >= 0 THEN IndexOf(agent) + 1 ELSE step

\* setCurrentStep(stepIndex + 1) on agent completion
StepAfter(agent, status, step) ==
    IF status \in { "success", "failed" } /\ IndexOf(agent) >= 0
    THEN IndexOf(agent) + 1
    ELSE step

\* which branch of the improved-files extraction an event takes
\* variant of ImproveBranch: the scalar improved_code is tested first
ImproveBranchScalarFirst(agent, status, payload) ==
    IF payload = None \/ agent # "ml_improvement_agent" \/ status # "success"
    THEN "none"
    ELSE IF payload[1].improved_code # None /\ payload[1].improved_code[1] # ""
    THEN "legacy"
    ELSE IF payload[1].improved_files # None THEN "files"
    ELSE "none"

ImproveBranch(agent, status, payload) ==
    IF payload = None \/ agent # "ml_improvement_agent" \/ status # "success"
    THEN "none"
    ELSE IF payload[1].improved_files # None THEN "files"
    ELSE IF payload[1].improved_code # None /\ payload[1].improved_code[1] # ""
    THEN "legacy"
    ELSE "none"

\* the improved files an event yields in the "files" or "legacy" branch
EventFiles(agent, status, payload) ==
    IF ImproveBranch(agent, status, payload) = "files"
    THEN payload[1].improved_files[1]
    ELSE << LegacyFile(payload[1].run_id, payload[1].original_code,
                       payload[1].improved_code[1]) >>

\* event.payload.baseline_metrics || event.payload.improved_metrics
HasMetrics(payload) ==
    /\ payload # None
    /\ \/ payload[1].baseline_metrics # None
       \/ payload[1].improved_metrics # None

\* realtimeData after the setRealtimeData updates of one non-failed event
EventRealtime(rd, agent, status, payload) ==
    LET rd1 == IF ImproveBranch(agent, status, payload) # "none"
               THEN [ rd EXCEPT !.improved_code = Some(EventFiles(agent, status, payload)) ]
               ELSE rd
        prev == IF rd1.overview = None THEN EmptyObj ELSE rd1.overview[1]
    IN  IF HasMetrics(payload)
        THEN [ rd1 EXCEPT !.overview = Some(Spread(prev, payload[1])) ]
        ELSE rd1

\* variant of FailedAgentAfter: the failure branch records no agent
FailedAgentAfterKeeps(agent, status, fa) == fa

\* "Handle agent failure": setFailedAgent(event.agent), setIsRunning(false)
FailedAgentAfter(agent, status, fa) == IF status = "failed" THEN agent ELSE fa
RunningAfterKeeps(status, running) == running
RunningAfter(status, running) == IF status = "failed" THEN FALSE ELSE running

onEvent(agent, status, payload) ==
    /\ stepStatuses' = [ stepStatuses EXCEPT ![agent] = StatusOf(status) ]
    /\ currentStep' = StepAfter(agent, status, currentStep)
    /\ failedAgent' = FailedAgentAfter(agent, status, failedAgent)
    /\ isRunning' = RunningAfter(status, isRunning)
    /\ IF status = "failed"
       THEN UNCHANGED << improvedFiles, improvedCode, realtimeData >>
       ELSE /\ realtimeData' = EventRealtime(realtimeData, agent, status, payload)
            /\ IF ImproveBranch(agent, status, payload) = "none"
               THEN UNCHANGED << improvedFiles, improvedCode >>
               ELSE /\ improvedFiles' = EventFiles(agent, status, payload)
                    /\ improvedCode' =
                         IF ImproveBranch(agent, status, payload) = "legacy"
                         THEN payload[1].improved_code[1]
                         ELSE IF Len(EventFiles(agent, status, payload)) > 0
                         THEN EventFiles(agent, status, payload)[1].improved_code
                         ELSE improvedCode
    /\ UNCHANGED << pipelineData, isPaused, pipelineResult >>

\* ------------------------------------------ onComplete (result) / onError
\* variant of CompleteRealtime: the final payload replaces the folded data
CompleteRealtimeReplace(rd, result) ==
    [ overview |-> result.overview, pipeline_json |-> result.pipeline_json,
      improved_code |-> result.improved_code ]

\* realtimeData after the three guarded setRealtimeData updates
CompleteRealtime(rd, result) ==
    [ overview      |-> IF result.overview # None THEN result.overview ELSE rd.overview,
      pipeline_json |-> IF result.pipeline_json # None
                        THEN result.pipeline_json ELSE rd.pipeline_json,
      improved_code |-> IF result.improved_code # None
                        THEN result.improved_code ELSE rd.improved_code ]

\* which branch of "Extract improved files from final result" is taken
CompleteBranch(result) ==
    IF result.improved_code # None /\ Len(result.improved_code[1]) > 0
    THEN "improved_code"
    ELSE IF result.ml_improvement # None
            /\ result.ml_improvement[1].improved_files # None
    THEN "ml_files"
    ELSE IF result.ml_improvement # None
            /\ result.ml_improvement[1].improved_code # None
            /\ result.ml_improvement[1].improved_code[1] # ""
    THEN "ml_legacy"
    ELSE "none"

\* variant of CompleteFiles: the files of the result are added to the list
CompleteFilesAppend(files, result) ==
    CASE CompleteBranch(result) = "improved_code" -> files \o result.improved_code[1]
      [] CompleteBranch(result) = "ml_files" ->
             files \o result.ml_improvement[1].improved_files[1]
      [] CompleteBranch(result) = "ml_legacy" ->
             files \o << LegacyFile(result.run_id, result.ml_improvement[1].original_code,
                                    result.ml_improvement[1].improved_code[1]) >>
      [] OTHER -> files

CompleteFiles(files, result) ==
    CASE CompleteBranch(result) = "improved_code" -> result.improved_code[1]
      [] CompleteBranch(result) = "ml_files" -> result.ml_improvement[1].improved_files[1]
      [] CompleteBranch(result) = "ml_legacy" ->
             << LegacyFile(result.run_id, result.ml_improvement[1].original_code,
                           result.ml_improvement[1].improved_code[1]) >>
      [] OTHER -> files

CompleteCode(code, result) ==
    CASE CompleteBranch(result) = "improved_code" -> result.improved_code[1][1].improved_code
      [] CompleteBranch(result) = "ml_files" ->
             IF Len(result.ml_improvement[1].improved_files[1]) > 0
             THEN result.ml_improvement[1].improved_files[1][1].improved_code
             ELSE code
      [] CompleteBranch(result) = "ml_legacy" -> result.ml_improvement[1].improved_code[1]
      [] OTHER -> code

onComplete(result) ==
    /\ pipelineResult' = Some(result)
    /\ currentStep' = Len(stepOrder)
    /\ isRunning' = FALSE
    /\ failedAgent' = Null
    /\ realtimeData' = CompleteRealtime(realtimeData, result)
    /\ improvedFiles' = CompleteFiles(improvedFiles, result)
    /\ improvedCode' = CompleteCode(improvedCode, result)
    /\ UNCHANGED << pipelineData, isPaused, stepStatuses >>

\* the onError callback and the catch block have the same effect
onError ==
    /\ isRunning' = FALSE
    /\ failedAgent' = "pipeline"
    /\ UNCHANGED << pipelineData, isPaused, currentStep, stepStatuses,
                    improvedCode, pipelineResult, realtimeData, improvedFiles >>

\* ------------------------------------ PlaybackControls.tsx / page rendering
ControlsShown == pipelineData                     \* {pipelineData && <PlaybackControls/>}
PlayShown  == ControlsShown /\ (~isRunning \/ isPaused)
PauseShown == ControlsShown /\ ~(~isRunning \/ isPaused)
canRetry   == failedAgent # Null                  \* canRetry={!!failedAgent}
RetryShown == ControlsShown /\ canRetry
SkipShown  == ControlsShown /\ canRetry

\* ------------------------------------------------ PipelineVisualization.tsx
\* ids of the fixed pipelineSteps
steps == << "server", "coordinator", "ingest", "diagnosis", "ml_improvement",
            "evaluation", "planner" >>

\* the isRunning prop: isRunning={isRunning && !isPaused}
vizRunning == isRunning /\ ~isPaused

\* getStepStatus(index), index 0-based
getStepStatus(index) ==
    IF ~vizRunning THEN "pending"
    ELSE IF currentStep > index THEN "completed"
    ELSE IF currentStep = index THEN "processing"
    ELSE "pending"

\* the "Pipeline Completed!" message is rendered
CompletionShown == pipelineData /\ vizRunning /\ currentStep >= Len(steps)

\* ---------------------------------------------------------------- actions
ClickPlay ==
    /\ PlayShown
    /\ handlePlay
    /\ lastOp' = Op("play", Null, "")
    /\ UNCHANGED nEvents
    /\ UNCHANGED << coord, obs >>

ClickPause ==
    /\ PauseShown
    /\ handlePause
    /\ lastOp' = Op("pause", Null, "")
    /\ UNCHANGED nEvents
    /\ UNCHANGED << coord, obs >>

ClickRestart ==
    /\ ControlsShown
    /\ handleRestart
    /\ lastOp' = Op("restart", Null, "")
    /\ UNCHANGED nEvents
    /\ UNCHANGED << coord, obs >>

ClickRetry ==
    /\ RetryShown
    /\ handleRetryAgent
    /\ lastOp' = Op("retry", failedAgent, "")
    /\ UNCHANGED nEvents
    /\ UNCHANGED << coord, obs >>

ClickSkip ==
    /\ SkipShown
    /\ handleSkipAgent
    /\ lastOp' = Op("skip", failedAgent, "")
    /\ UNCHANGED nEvents
    /\ UNCHANGED << coord, obs >>

ClickParse ==
    /\ \E parsed \in BOOLEAN : handleParse(parsed)
    /\ lastOp' = Op("parse", Null, "")
    /\ UNCHANGED nEvents
    /\ UNCHANGED << coord, obs >>

ClickClear ==
    /\ handleClear
    /\ lastOp' = Op("clear", Null, "")
    /\ UNCHANGED nEvents
    /\ UNCHANGED << coord, obs >>

\* with two streams open, one of them belongs to a run older than the latest
EventRuns == IF streams >= 2 THEN { "", "older" } ELSE { "" }

\* onEvent returns on a failed event before it reads event.payload, and it
\* reads improved_files and improved_code of ml_improvement_agent only
EventPayloads(agent, status) ==
    IF status = "failed" THEN { None }
    ELSE IF agent = "ml_improvement_agent" THEN Payloads
    ELSE { p \in Payloads : p = None \/ HasMetrics(p) }

StreamEvent ==
    /\ nEvents < MaxEvents
    /\ streams > 0
    /\ \E agent \in EventAgents, status \in EventStatuses, run \in EventRuns :
       \E payload \in EventPayloads(agent, status) :
          /\ onEvent(agent, status, payload)
          /\ lastOp' = [ Op("event", agent, status) EXCEPT !.run = run ]
    /\ nEvents' = nEvents + 1
    /\ sent' = ""
    /\ UNCHANGED streams
    /\ UNCHANGED << coord, obs >>

\* status "replay": the same terminal result as the handler that ran just before
StreamComplete ==
    /\ \E result \in Results :
          /\ onComplete(result)
          /\ lastOp' = Op("complete", Null,
                          IF lastOp.kind = "complete" /\ pipelineResult = Some(result)
                          THEN "replay" ELSE "")
    /\ CloseStream
    /\ sent' = ""
    /\ UNCHANGED nEvents
    /\ UNCHANGED << coord, obs >>

StreamError ==
    /\ onError
    /\ CloseStream
    /\ lastOp' = Op("error", Null, "")
    /\ sent' = ""
    /\ UNCHANGED nEvents
    /\ UNCHANGED << coord, obs >>

Next ==
    \/ ClickPlay
    \/ ClickPause
    \/ ClickRestart
    \/ ClickRetry
    \/ ClickSkip
    \/ ClickParse
    \/ ClickClear
    \/ StreamEvent
    \/ StreamComplete
    \/ StreamError

Spec == Init /\ [][Next]_vars

\* --------------------------------------------- Coordinator (backend, one run)
\* The five stages in their fixed order, under the agent names of stepOrder.
Stages == SubSeq(stepOrder, 3, 7)
NumStages == Len(Stages)
CurStage == Stages[coord.cursor]

\* payload of a stage's success event
StagePayloads(stage) ==
    IF stage = "ml_improvement_agent" THEN Payloads
    ELSE { p \in Payloads : p = None \/ HasMetrics(p) }

\* the observer's record after the event (agent, status) has been applied
Observed(agent, status) ==
    [ step |-> currentStep',
      last |-> [ obs.last EXCEPT ![agent] = status ],
      retry |-> FALSE,
      halted |-> (status = "failed") ]

\* one progress event of the run, delivered in order to the onEvent callback
Deliver(agent, status, payload) ==
    /\ streams > 0
    /\ onEvent(agent, status, payload)
    /\ lastOp' = Op("event", agent, status)
    /\ obs' = Observed(agent, status)
    /\ sent' = ""
    /\ UNCHANGED << streams, nEvents >>

\* start(run_id, input_record): the client's request opens the only run
ClientStartRun ==
    /\ PlayShown /\ currentStep = 0 /\ streams = 0
    /\ handlePlay
    /\ lastOp' = Op("play", Null, "")
    /\ coord' = [ CoordIdle EXCEPT !.status = "running" ]
    /\ obs' = ObsNone
    /\ UNCHANGED nEvents

ClientRetryRun ==
    /\ RetryShown /\ currentStep = 0 /\ streams = 0
    /\ handleRetryAgent
    /\ lastOp' = Op("retry", failedAgent, "")
    /\ coord' = [ CoordIdle EXCEPT !.status = "running" ]
    /\ obs' = ObsNone
    /\ UNCHANGED nEvents

\* Play and Retry that start no run
ClientResume == ClickPlay /\ currentStep # 0
ClientRetry == ClickRetry /\ currentStep # 0

EmitStarted ==
    /\ coord.status = "running" /\ coord.cursor <= NumStages
    /\ coord.rec = "idle"
    /\ Deliver(CurStage, "started", None)
    /\ coord' = [ coord EXCEPT !.rec = "started" ]

EmitProcessing ==
    /\ coord.status = "running" /\ coord.cursor <= NumStages
    /\ coord.rec \in { "started", "processing" }
    /\ Deliver(CurStage, "processing", None)
    /\ coord' = [ coord EXCEPT !.rec = "processing" ]

EmitSuccess ==
    /\ coord.status = "running" /\ coord.cursor <= NumStages
    /\ coord.rec \in { "started", "processing" }
    /\ \E payload \in StagePayloads(CurStage) : Deliver(CurStage, "success", payload)
    /\ coord' = [ coord EXCEPT !.cursor = @ + 1, !.rec = "idle" ]

EmitFailed ==
    /\ coord.status = "running" /\ coord.cursor <= NumStages
    /\ coord.rec \in { "started", "processing" }
    /\ Deliver(CurStage, "failed", None)
    /\ coord' = [ coord EXCEPT !.status = "halted", !.rec = "failed" ]

\* retry(run_id): a new record for the failed stage, cursor untouched
CoordRetry ==
    /\ coord.status = "halted"
    /\ coord' = [ coord EXCEPT !.status = "running", !.rec = "idle" ]
    /\ obs' = [ obs EXCEPT !.retry = TRUE, !.halted = FALSE ]
    /\ lastOp' = Op("coord_retry", CurStage, "")
    /\ sent' = ""
    /\ UNCHANGED << page, streams, nEvents >>

\* skip(run_id): the cursor moves past the failed stage
CoordSkip ==
    /\ coord.status = "halted"
    /\ coord' = [ coord EXCEPT !.status = "running", !.cursor = @ + 1, !.rec = "idle" ]
    /\ obs' = [ obs EXCEPT !.halted = FALSE ]
    /\ lastOp' = Op("coord_skip", CurStage, "")
    /\ sent' = ""
    /\ UNCHANGED << page, streams, nEvents >>

\* the terminal event: the run is completed and the stream closes
EmitResult ==
    /\ coord.status = "running" /\ coord.cursor = NumStages + 1
    /\ \E result \in Results : onComplete(result)
    /\ CloseStream
    /\ coord' = [ coord EXCEPT !.status = "completed" ]
    /\ obs' = [ obs EXCEPT !.step = currentStep' ]
    /\ lastOp' = Op("complete", Null, "")
    /\ sent' = ""
    /\ UNCHANGED nEvents

\* halted with neither retry nor skip within the window: run failed, stream closed
IdleTimeout ==
    /\ coord.status = "halted"
    /\ CloseStream
    /\ coord' = [ coord EXCEPT !.status = "failed" ]
    /\ lastOp' = Op("timeout", Null, "")
    /\ sent' = ""
    /\ UNCHANGED << page, nEvents, obs >>

\* variant of DuplicateStart: the second start is accepted and the run begins anew
DuplicateStartAccepted ==
    /\ coord.status \in { "running", "halted" }
    /\ coord' = [ CoordIdle EXCEPT !.status = "running" ]
    /\ lastOp' = Op("start", Null, "rejected")
    /\ sent' = ""
    /\ UNCHANGED << page, streams, nEvents, obs >>

\* start(run_id, ...) by another caller for the run_id of the run in flight:
\* rejected synchronously, no events
DuplicateStart ==
    /\ coord.status \in { "running", "halted" }
    /\ lastOp' = Op("start", Null, "rejected")
    /\ sent' = ""
    /\ UNCHANGED << page, streams, nEvents, coord, obs >>

NextCoord ==
    \/ ClientStartRun
    \/ ClientRetryRun
    \/ ClientResume
    \/ ClientRetry
    \/ ClickPause
    \/ ClickRestart
    \/ ClickSkip
    \/ ClickParse
    \/ ClickClear
    \/ EmitStarted
    \/ EmitProcessing
    \/ EmitSuccess
    \/ EmitFailed
    \/ CoordRetry
    \/ CoordSkip
    \/ EmitResult
    \/ IdleTimeout
    \/ DuplicateStart

SpecCoord == Init /\ [][NextCoord]_vars

\* the handlers invoked directly while no agent has failed (their buttons
\* are not rendered then)
CallRetryAgent ==
    /\ failedAgent = Null
    /\ handleRetryAgent
    /\ lastOp' = Op("retry", failedAgent, "call")
    /\ UNCHANGED nEvents
    /\ UNCHANGED << coord, obs >>

CallSkipAgent ==
    /\ failedAgent = Null
    /\ handleSkipAgent
    /\ lastOp' = Op("skip", failedAgent, "call")
    /\ UNCHANGED nEvents
    /\ UNCHANGED << coord, obs >>

\* the coordinator's run with one client, plus the direct invocations
NextCalls ==
    \/ ClientStartRun
    \/ ClientRetryRun
    \/ ClientResume
    \/ ClientRetry
    \/ ClickPause
    \/ ClickRestart
    \/ ClickSkip
    \/ ClickParse
    \/ ClickClear
    \/ EmitStarted
    \/ EmitProcessing
    \/ EmitSuccess
    \/ EmitFailed
    \/ CoordRetry
    \/ CoordSkip
    \/ EmitResult
    \/ IdleTimeout
    \/ CallRetryAgent
    \/ CallSkipAgent

SpecCalls == Init /\ [][NextCalls]_vars

TypeOK ==
    /\ pipelineData \in BOOLEAN /\ isRunning \in BOOLEAN /\ isPaused \in BOOLEAN
    /\ currentStep \in 0..(totalSteps + 1 + MaxEvents + MaxStreams)
    /\ failedAgent \in Agents \cup { Null, "pipeline" }
    /\ nEvents \in 0..MaxEvents
    /\ streams \in 0..MaxStreams
    /\ stepStatuses \in [ Agents -> { "none", "processing", "completed", "error" } ]
    /\ coord.status \in { "none", "running", "halted", "completed", "failed" }
    /\ coord.cursor \in 1..(NumStages + 1)
    /\ coord.rec \in { "idle", "started", "processing", "failed" }
    /\ obs.step \in -1..(totalSteps + 1)

\* ------------------------------------------------------------ properties
IsEvent(op, statuses) == op.kind = "event" /\ op.status \in statuses
IsStage(agent) == IndexOf(agent) >= 0

\* C1: applying a `failed` event never changes the step cursor.
C1_FailedFreezesCursor ==
    [][ IsEvent(lastOp', { "failed" }) => currentStep' = currentStep ]_vars

\* C2: skipping the failed stage S leaves the cursor on the stage right after
\* S, i.e. at (index of S) + 1 in the fixed stage order.
C2_SkipDesignatesNextStage ==
    [][ lastOp'.kind = "skip" /\ IsStage(failedAgent)
          => currentStep' = IndexOf(failedAgent) + 1 ]_vars

\* C3: retry of the failed stage S sends a retry request to the coordinator
\* and opens no stream of a new run.
C3_RetryReexecutesStage ==
    [][ lastOp'.kind = "retry" /\ IsStage(failedAgent)
          => /\ streams' = streams
             /\ sent' = "retry" ]_vars

\* C4: retry of the failed stage S keeps the cursor, the composite data and
\* the `completed` statuses of the stages that had succeeded.
C4_RetryKeepsCursorAndData ==
    [][ lastOp'.kind = "retry" /\ IsStage(failedAgent)
          => /\ currentStep' = currentStep
             /\ composite' = composite
             /\ \A a \in EventAgents :
                   stepStatuses[a] = "completed" => stepStatuses'[a] = "completed" ]_vars

\* C5: the skip action leaves the whole composite result (realtimeData,
\* improvedFiles, improvedCode, pipelineResult) unchanged.
C5_SkipLeavesComposite ==
    [][ lastOp'.kind = "skip" => composite' = composite ]_vars

C5_Witness ==
    /\ lastOp.kind = "skip"
    /\ lastOp.agent = "ml_improvement_agent"
    /\ stepStatuses["ingest_agent"] = "completed"
    /\ improvedFiles = << >>
    /\ realtimeData.improved_code = None

\* C6: a `failed` event for S sets S's status to error, records
\* failedAgent = S, clears the running flag and makes canRetry true; retry and
\* skip are only ever invoked while failedAgent is set.
C6_FailedHaltsAndOffersRecovery ==
    /\ [] ( IsEvent(lastOp, { "failed" })
              => /\ stepStatuses[lastOp.agent] = "error"
                 /\ failedAgent = lastOp.agent
                 /\ ~isRunning
                 /\ canRetry
                 /\ (ControlsShown => RetryShown /\ SkipShown) )
    /\ [][ lastOp'.kind \in { "retry", "skip" } => failedAgent # Null ]_vars

C6_Witness ==
    /\ IsEvent(lastOp, { "failed" })
    /\ lastOp.agent = "ml_improvement_agent"
    /\ stepStatuses["ingest_agent"] = "completed"
    /\ RetryShown

\* C7: a `success` event for a stage of stepOrder sets that stage's status to
\* completed and the cursor to (index of the stage) + 1.
C7_SuccessAdvancesCursor ==
    IsEvent(lastOp, { "success" }) /\ IsStage(lastOp.agent)
        => /\ stepStatuses[lastOp.agent] = "completed"
           /\ currentStep = IndexOf(lastOp.agent) + 1

C7_Witness ==
    /\ IsEvent(lastOp, { "success" })
    /\ lastOp.agent = "ml_improvement_agent"
    /\ currentStep = 5

\* C8: a `started` or `processing` event sets the named stage's status to
\* processing and leaves the cursor unchanged.
C8_ProgressKeepsCursor ==
    [][ IsEvent(lastOp', { "started", "processing" })
          => /\ currentStep' = currentStep
             /\ stepStatuses'[lastOp'.agent] = "processing" ]_vars

C8_Witness ==
    /\ IsEvent(lastOp, { "started", "processing" })
    /\ lastOp.agent = "ingest_agent"
    /\ currentStep = 5
    /\ stepStatuses["ml_improvement_agent"] = "completed"

\* C9: a `success` event for the stage recorded in failedAgent clears
\* failedAgent.
C9_SuccessClearsFailedStage ==
    [][ IsEvent(lastOp', { "success" }) /\ failedAgent = lastOp'.agent
          => failedAgent' = Null ]_vars

\* C10 as stated: after the terminal result the run is finished and the
\* client composite equals the final payload, field by field.
C10_FinalReplacesComposite ==
    lastOp.kind = "complete"
        => /\ ~isRunning /\ currentStep = Len(stepOrder)
           /\ pipelineResult # None
           /\ realtimeData.overview = pipelineResult[1].overview
           /\ realtimeData.pipeline_json = pipelineResult[1].pipeline_json
           /\ realtimeData.improved_code = pipelineResult[1].improved_code

\* C10 amended: after the terminal result the run is finished, pipelineResult
\* is the final payload, each of overview, pipeline_json, improved_code that
\* the payload carries overwrites the folded value, and a field the payload
\* lacks keeps its folded value.
C10_FinalOverwritesPresentFields ==
    [][ lastOp'.kind = "complete"
          => /\ ~isRunning' /\ currentStep' = Len(stepOrder) /\ failedAgent' = Null
             /\ pipelineResult' # None
             /\ \A f \in { "overview", "pipeline_json", "improved_code" } :
                   realtimeData'[f] = IF pipelineResult'[1][f] # None
                                      THEN pipelineResult'[1][f]
                                      ELSE realtimeData[f] ]_vars

C10_Witness ==
    /\ lastOp.kind = "complete"
    /\ pipelineResult # None
    /\ pipelineResult[1].overview = None
    /\ realtimeData.overview # None

\* C11: applying the terminal result a second time, right after the first,
\* changes neither the composite nor cursor, failedAgent and running flag.
C11_TerminalReplayIdempotent ==
    [][ lastOp'.kind = "complete" /\ lastOp'.status = "replay"
          => /\ composite' = composite
             /\ currentStep' = currentStep
             /\ failedAgent' = failedAgent
             /\ isRunning' = isRunning ]_vars

C11_Witness ==
    /\ lastOp.kind = "complete" /\ lastOp.status = "replay"
    /\ improvedFiles # << >>
    /\ stepStatuses["ingest_agent"] = "completed"

\* C12: the cursor equals the number of stages below it whose status is
\* completed (stages that the streams of this model never name are counted
\* as completed).
C12_CursorCountsSuccesses ==
    currentStep =
        Cardinality({ i \in 1..Len(stepOrder) :
                        /\ i <= currentStep
                        /\ \/ stepOrder[i] \notin EventAgents
                           \/ stepStatuses[stepOrder[i]] = "completed" })

\* C14: an out-of-order event (a processing, success or failed event for a
\* stage with no status yet, or an event for a stage right after its own
\* success or failed event) changes no status, cursor, failedAgent or
\* composite.
C14_OutOfOrderDiscarded ==
    [][ /\ lastOp'.kind = "event"
        /\ \/ /\ lastOp'.status \in { "processing", "success", "failed" }
              /\ stepStatuses[lastOp'.agent] = "none"
           \/ /\ IsEvent(lastOp, { "success", "failed" })
              /\ lastOp.agent = lastOp'.agent
        => UNCHANGED << stepStatuses, currentStep, failedAgent, composite >> ]_vars

\* C16: started, processing and failed events never add to or change the
\* composite.
C16_OnlySuccessPopulates ==
    [][ IsEvent(lastOp', { "started", "processing", "failed" })
          => composite' = composite ]_vars

\* C19: after retry or skip of the failed stage S, failedAgent is unset and
\* the status of S is no longer error; after skip it is skipped.
C19_RecoveryClearsFailure ==
    [][ lastOp'.kind \in { "retry", "skip" } /\ IsStage(failedAgent)
          => /\ failedAgent' = Null
             /\ stepStatuses'[failedAgent] # "error"
             /\ (lastOp'.kind = "skip" => stepStatuses'[failedAgent] = "skipped") ]_vars

\* the step applies a success event of ml_improvement_agent with payload p
IsImproveEvent(p) ==
    /\ lastOp'.kind = "event" /\ lastOp'.status = "success"
    /\ lastOp'.agent = "ml_improvement_agent"
    /\ p # None
    /\ onEvent("ml_improvement_agent", "success", p)

\* the step applies the terminal result r
IsTerminal(r) == lastOp'.kind = "complete" /\ pipelineResult' = Some(r)

\* the Improve-stage part of a terminal result in the legacy shape
IsLegacyResult(r) ==
    /\ r.ml_improvement # None
    /\ r.ml_improvement[1].improved_files = None
    /\ r.ml_improvement[1].improved_code # None

\* C18 (as stated): every legacy {improved_code: string} without improved_files,
\* in a success event or in the terminal result, becomes a list of one file
\* holding that string.
C18_LegacyAlwaysNormalized ==
    [][ /\ \A p \in Payloads :
              IsImproveEvent(p) /\ p[1].improved_files = None
                                /\ p[1].improved_code # None
              => /\ Len(improvedFiles') = 1
                 /\ improvedFiles'[1].improved_code = p[1].improved_code[1]
        /\ \A r \in Results :
              IsTerminal(r) /\ IsLegacyResult(r)
              => /\ Len(improvedFiles') = 1
                 /\ improvedFiles'[1].improved_code
                      = r.ml_improvement[1].improved_code[1] ]_vars

\* C18 (amended): a legacy improved_code that is a non-empty string becomes a
\* list of one file holding that string (in the terminal result: when the
\* result has no non-empty top-level improved_code list); an improved_files
\* array that is present is taken as the list and the scalar is ignored.
C18_LegacyNormalized ==
    [][ /\ lastOp'.kind = "event" /\ lastOp'.status = "success" =>
             \A p \in Payloads :
                IsImproveEvent(p) =>
                   /\ p[1].improved_files # None
                        => improvedFiles' = p[1].improved_files[1]
                   /\ p[1].improved_files = None /\ p[1].improved_code # None
                      /\ p[1].improved_code[1] # ""
                        => /\ Len(improvedFiles') = 1
                           /\ improvedFiles'[1].improved_code = p[1].improved_code[1]
                           /\ improvedCode' = p[1].improved_code[1]
        /\ lastOp'.kind = "complete" =>
             \A r \in Results :
                /\ IsTerminal(r)
                /\ r.improved_code = None \/ r.improved_code[1] = << >>
                /\ r.ml_improvement # None
                => /\ r.ml_improvement[1].improved_files # None
                        => improvedFiles' = r.ml_improvement[1].improved_files[1]
                   /\ IsLegacyResult(r) /\ r.ml_improvement[1].improved_code[1] # ""
                        => /\ Len(improvedFiles') = 1
                           /\ improvedFiles'[1].improved_code
                                = r.ml_improvement[1].improved_code[1] ]_vars

C18_Witness ==
    /\ lastOp = Op("event", "ml_improvement_agent", "success")
    /\ Len(improvedFiles) = 1
    /\ improvedFiles[1].file_path = "models/legacy_model.py"
    /\ improvedFiles[1].improved_code = "codeL"

\* C15: retry or skip invoked while no stage is failed changes no state of
\* the page, opens no stream and sends no request.
C15_RecoveryRejectedUnlessHalted ==
    [][ lastOp'.kind \in { "retry", "skip" } /\ failedAgent = Null
          => UNCHANGED << page, streams >> /\ sent' = "" ]_vars

C15_Witness ==
    /\ lastOp = Op("retry", Null, "call")
    /\ pipelineData /\ currentStep = 0 /\ streams = 0

\* C17: with two streams open, an event of the older run changes nothing of
\* the client state that the latest run started with and built up: cursor,
\* stage statuses, failedAgent and composite.
C17_RunsIsolated ==
    [][ lastOp'.kind = "event" /\ lastOp'.run = "older"
          => UNCHANGED << currentStep, stepStatuses, failedAgent, composite >> ]_vars

\* C13: within one run the cursor never decreases from one applied event to
\* the next, the terminal event included.
C13_CursorMonotonic ==
    [][ lastOp'.kind \in { "event", "complete" } /\ obs.step >= 0
          => currentStep' >= obs.step ]_vars

\* C20: the events of a stage come in the order started, processing*, then
\* success or failed; a stage with a terminal status gets a further event,
\* and its status on the page changes, only after a retry, and then the event
\* is started.
C20_StageEventOrder ==
    [][ lastOp'.kind = "event" =>
          /\ lastOp'.status = "started"
               => \/ obs.last[lastOp'.agent] = "none"
                  \/ obs.last[lastOp'.agent] = "failed" /\ obs.retry
          /\ lastOp'.status \in { "processing", "success", "failed" }
               => obs.last[lastOp'.agent] \in { "started", "processing" }
          /\ \A a \in Agents :
               /\ stepStatuses[a] \in { "completed", "error" }
               /\ stepStatuses'[a] # stepStatuses[a]
               => /\ lastOp'.agent = a /\ lastOp'.status = "started"
                  /\ obs.retry ]_vars

C20_Witness ==
    /\ lastOp = Op("event", "ingest_agent", "success")
    /\ obs.last["ingest_agent"] = "success"
    /\ stepStatuses["ingest_agent"] = "completed"
    /\ coord.cursor = 2

\* stages whose last event is started or processing, for the observer and on
\* the page
InProgress == { a \in Agents : obs.last[a] \in { "started", "processing" } }
ShownInProgress == { a \in Agents : stepStatuses[a] = "processing" }

\* C21: the stages of a run execute one after the other in the order of
\* stepOrder: a started event for a stage comes only when every earlier stage
\* has a terminal status and no later stage has had an event, and at most one
\* stage is in started/processing at any time.
C21_StagesSequential ==
    /\ [] ( Cardinality(InProgress) <= 1 /\ Cardinality(ShownInProgress) <= 1 )
    /\ [][ IsEvent(lastOp', { "started" }) =>
             \A i \in 1..NumStages :
                /\ IndexOf(Stages[i]) < IndexOf(lastOp'.agent)
                     => obs.last[Stages[i]] \in { "success", "failed" }
                /\ IndexOf(Stages[i]) > IndexOf(lastOp'.agent)
                     => obs.last[Stages[i]] = "none" ]_vars

C21_Witness ==
    /\ lastOp = Op("event", "ml_improvement_agent", "started")
    /\ obs.last["ingest_agent"] = "success"
    /\ obs.last["diagnosis_agent"] = "failed"
    /\ InProgress = { "ml_improvement_agent" }

\* C22: a failed event halts the run: the page records the failed agent and
\* stops running, and no further event and no terminal result of the run is
\* emitted or applied until the coordinator's retry or skip has been invoked
\* (so the failure is reported by exactly one failed event).
C22_FailureHalts ==
    [][ /\ lastOp'.kind \in { "event", "complete" } => ~obs.halted
        /\ IsEvent(lastOp', { "failed" })
             => /\ obs'.halted
                /\ failedAgent' = lastOp'.agent
                /\ ~isRunning' ]_vars

C22_Witness ==
    /\ lastOp = Op("event", "diagnosis_agent", "started")
    /\ obs.last["ingest_agent"] = "failed"
    /\ ~obs.halted
    /\ failedAgent = "ingest_agent"

\* C23: a second start for the run_id of a run in flight is rejected: the
\* run's coordinator state and the observer's record stay as they are, no
\* event is applied and the page and the stream are unchanged.
C23_DuplicateStartRejected ==
    [][ lastOp'.kind = "start" => UNCHANGED << coord, obs, page, streams >> ]_vars

C23_Witness ==
    /\ lastOp = Op("start", Null, "rejected")
    /\ coord.status = "running" /\ coord.cursor = 2 /\ coord.rec = "processing"
    /\ obs.last["ingest_agent"] = "success"

\* C24: applying a success event a second time would leave the realtime data
\* as the first application left it, and a success event changes only the
\* fields of its own stage: the improved files and code belong to
\* ml_improvement_agent, the overview to eval_agent.
C24_MergeIdempotentLocal ==
    [][ IsEvent(lastOp', { "success" }) =>
          /\ \A p \in Payloads :
                onEvent(lastOp'.agent, "success", p)
                  => EventRealtime(realtimeData', lastOp'.agent, "success", p)
                       = realtimeData'
          /\ lastOp'.agent # "ml_improvement_agent"
               => /\ UNCHANGED << improvedFiles, improvedCode >>
                  /\ realtimeData'.improved_code = realtimeData.improved_code
          /\ lastOp'.agent # "eval_agent"
               => realtimeData'.overview = realtimeData.overview ]_vars

\* C25: the completion message is shown only after the terminal result of a
\* run whose stages all succeeded, and it is shown once the terminal result
\* has been applied (the page having pipeline data and not being paused).
C25_CompletionOnlyOnResult ==
    /\ CompletionShown
         => /\ pipelineResult # None
            /\ \A i \in 1..NumStages : obs.last[Stages[i]] = "success"
    /\ lastOp.kind = "complete" /\ pipelineData /\ ~isPaused => CompletionShown

\* C26: a stage's step is displayed as completed only if the stage's last
\* event in the current run is success or the terminal result has been
\* applied.
C26_CompletedOnlyAfterSuccess ==
    \A i \in 1..NumStages :
        pipelineData /\ getStepStatus(IndexOf(Stages[i])) = "completed"
            => obs.last[Stages[i]] = "success" \/ pipelineResult # None

\* C27: an event or terminal result of the run that arrives right after
\* Restart, the run's stream being still open, is not applied: the reset
\* state stays.
C27_RestartDropsLateEvents ==
    [][ /\ lastOp.kind = "restart" /\ streams > 0
        /\ lastOp'.kind \in { "event", "complete" }
        => UNCHANGED << currentStep, failedAgent, realtimeData, isRunning,
                        stepStatuses, improvedFiles, improvedCode,
                        pipelineResult >> ]_vars

\* C28: at most one pipeline stream is open on the client at any time.
C28_SingleStream == streams <= 1

\* C29: the cursor stays within 0..7, the length of stepOrder.
C29_CursorInRange == currentStep >= 0 /\ currentStep <= Len(stepOrder)

\* C30: the step that starts a run (it opens the run's stream) leaves the
\* per-run client state reset: cursor 0, no stage status, no failedAgent, no
\* pipeline result, empty realtime data, no improved files, no improved
\* code; nothing of an earlier run is left in it.
C30_RunStartResets ==
    [][ streams' > streams
        => /\ sent' = "run"
           /\ isRunning'
           /\ currentStep' = 0
           /\ stepStatuses' = [ a \in Agents |-> "none" ]
           /\ failedAgent' = Null
           /\ pipelineResult' = None
           /\ realtimeData' = EmptyRealtime
           /\ improvedFiles' = << >>
           /\ improvedCode' = "" ]_vars

\* a second run has just been started by Retry after the earlier run failed
C30_Witness ==
    /\ lastOp.kind = "retry" /\ lastOp.agent \in Agents
    /\ sent = "run" /\ streams = 1
    /\ coord.status = "running" /\ coord.cursor = 1
    /\ failedAgent = Null /\ improvedFiles = << >>
    /\ realtimeData = EmptyRealtime

====
